---- MODULE Spec2Model ----
(***************************************************************************)
(* ContractIQ frontend controller: the upload/extraction pipeline of       *)
(* App.handleFileUpload, the application state APP_STATE, and the chat     *)
(* session of Chat.sendMessage / Chat.clearChat.                           *)
(*                                                                         *)
(* JavaScript runs every handler to its next `await` without interleaving, *)
(* so one action is one handler segment: from the call (or from the        *)
(* resolution of the awaited promise) to the next await or return.         *)
(* Text is a sequence of one-character strings, so that trim, toLowerCase, *)
(* endsWith and the newline replacement are computed as the code does.     *)
(*                                                                         *)
(* Only the controls of the visible section can be operated: the file      *)
(* input and drop area on the upload section, the chat, clear and          *)
(* new-analysis controls on the dashboard section.  The navigation links   *)
(* are always operable.                                                    *)
(***************************************************************************)
EXTENDS Integers, Sequences, FiniteSets, TLC

\* ------------------------------------------------------------------ bounds
MaxRuns == 2
MaxSends == 2
MaxClears == 1
MaxResets == 1
MaxExports == 1

\* --------------------------------------------------------------- constants
MaxFileSize == 10 * 1024 * 1024
\* JavaScript `null`: as an id, as a string field, as an analysis result
NullId == 0
NullText == "null"
NullResult == [doc_id |-> 0, overall_risk_score |-> 0, risk_level |-> "null"]

UploadSection == "upload-section"
ProcessingSection == "processing-section"
DashboardSection == "dashboard-section"

VARIABLES
    currentDocId,      \* APP_STATE.currentDocId
    currentSessionId,  \* APP_STATE.currentSessionId
    extractionData,    \* APP_STATE.extractionData
    currentFilter,     \* APP_STATE.currentFilter
    section,           \* the .section element carrying class `active`
    progressStep,      \* step number last given to updateProcessingStep
    runs,              \* the handleFileUpload invocations that passed validation
    timers,            \* runs whose catch block has a pending setTimeout
    dashboardData,     \* the data last given to Dashboard.render
    isProcessing,      \* Chat.isProcessing
    sendBtnDisabled,   \* sendBtn.disabled
    chatInput,         \* chatInput.value
    transcript,        \* children of #chatMessages, in document order
    chatPending,       \* sendMessage invocations suspended at the await
    chatRequests,      \* bodies POSTed to the chat endpoint, in order
    clearPending,      \* clearChat invocations suspended at the await
    clearRequests,     \* session ids DELETEd, in order
    sessionsMade,      \* number of ids handed out by generateSessionId
    docsMade,          \* number of doc ids handed out by the upload service
    lastToast,         \* the notification last shown by Toast.show
    dashboardFileName, \* text of #dashboardFileName
    overview,          \* what renderRiskOverview wrote: score, tier, gauge, counts
    clauseItems,       \* children of #clausesList, in document order
    exportPending,     \* handleExport invocations suspended at the await
    exportRequests,    \* doc ids whose export was requested, in order
    callArg,           \* the argument of a call of a Utils function
    callResult         \* what that call returned

appVars == <<currentDocId, currentSessionId, extractionData, currentFilter>>
pipeVars == <<section, progressStep, runs, timers, dashboardData, docsMade>>
chatVars == <<isProcessing, sendBtnDisabled, chatInput, transcript,
              chatPending, chatRequests, clearPending, clearRequests>>
dashVars == <<dashboardFileName, overview, clauseItems>>
exportVars == <<exportPending, exportRequests>>
utilVars == <<callArg, callResult>>
vars == <<appVars, pipeVars, chatVars, sessionsMade, lastToast, dashVars,
          exportVars, utilVars>>

\* -------------------------------------------------------------------- text
LowerOf(c) ==
    CASE c = "A" -> "a" [] c = "D" -> "d" [] c = "F" -> "f"
      [] c = "P" -> "p" [] OTHER -> c

toLowerCase(s) == [i \in 1..Len(s) |-> LowerOf(s[i])]

endsWith(s, suffix) ==
    /\ Len(s) >= Len(suffix)
    /\ SubSeq(s, Len(s) - Len(suffix) + 1, Len(s)) = suffix

IsWhite(c) == c \in {" ", "\t", "\n"}

RECURSIVE trimStart(_)
trimStart(s) ==
    IF s # <<>> /\ IsWhite(Head(s)) THEN trimStart(Tail(s)) ELSE s

RECURSIVE trimEnd(_)
trimEnd(s) ==
    IF s # <<>> /\ IsWhite(s[Len(s)])
    THEN trimEnd(SubSeq(s, 1, Len(s) - 1)) ELSE s

trim_identity(s) == s

trim(s) == trimEnd(trimStart(s))

RECURSIVE formatMessageText(_)
formatMessageText(text) ==
    IF text = <<>> THEN <<>>
    ELSE (IF Head(text) = "\n" THEN <<"<br>">> ELSE <<Head(text)>>)
         \o formatMessageText(Tail(text))

\* ------------------------------------------------------------------ inputs
DotPdf == <<".", "p", "d", "f">>

FileNames ==
    { <<"a", ".", "p", "d", "f">>,
      <<"A", ".", "P", "D", "F">>,
      <<"s", ".", "p", "n", "g">>,
      <<"a", ".", "p", "d", "f", ".", "x">>,
      <<"p", "d", "f">> }

FileSizes == {0, MaxFileSize, MaxFileSize + 1}

\* every size with the plain pdf name, every other name with size 0
Files ==
    {f \in [name : FileNames, size : FileSizes] :
        f.name = <<"a", ".", "p", "d", "f">> \/ f.size = 0}

\* what the user may have typed into the chat box
ChatInputs == { <<>>, <<" ">>, <<" ", "q", " ">>, <<"r">> }

\* the `detail` field of a non-ok response; "" when the field is absent
Details == { "", "Invalid PDF" }

\* the `sources` and `answer` fields of a chat response
Sources ==
    { <<>>,
      <<[clause_type |-> "Cap", risk_level |-> "HIGH"],
        [clause_type |-> NullText, risk_level |-> NullText]>> }

Answers == { <<"y">>, <<"n", "\n", "o">> }

\* ----------------------------------------------------------------- toasts
PleaseUploadPdf == "Please upload a PDF file"
FileTooLarge == "File size must be less than 10MB"
ProcessingError == "An error occurred during processing"
UploadFailed == "Upload failed"
ExtractionFailed == "Extraction failed"
ChatRequestFailed == "Chat request failed"
FailedToFetch == "Failed to fetch"
UploadedOk == "File uploaded successfully"
AnalysisComplete == "Analysis complete!"
ReadyForNew == "Ready for new analysis"
EnterQuestion == "Please enter a question"
NoDocument == "No document loaded"
FailedResponse == "Failed to get response: "
FailedToClear == "Failed to clear chat"
ChatCleared == "Chat cleared"
NoDocToExport == "No document to export"
GeneratingExcel == "Generating Excel file..."
ExcelDownloaded == "Excel file downloaded successfully"
FailedToExport == "Failed to export: "
ExportFailed == "Export failed"
NoToast == [type |-> "none", message |-> "", detail |-> ""]

\* Toast.show(message + detail, type)
ToastWith(type, message, detail) ==
    [type |-> type, message |-> message, detail |-> detail]

Toast(type, message) == ToastWith(type, message, "")

\* ---------------------------------------------------------------- App (UI)
showSection(sectionId) == section' = sectionId

StepAt_skipping(point) ==
    CASE point = "reset" -> 0
      [] point = "upload" -> 1
      [] point = "text" -> 3
      [] point = "clauses" -> 3
      [] point = "risk" -> 4
      [] point = "complete" -> 5

\* the argument of the updateProcessingStep call made at each point of a run
StepAt(point) ==
    CASE point = "reset" -> 0
      [] point = "upload" -> 1
      [] point = "text" -> 2
      [] point = "clauses" -> 3
      [] point = "risk" -> 4
      [] point = "complete" -> 5

percentage(stepNumber) == (stepNumber * 100) \div 5

IsPdfFile_anywhere(file) ==
    \E i \in 1..Len(file.name) :
        SubSeq(toLowerCase(file.name), i, i + 2) = <<"p", "d", "f">>

\* `file.name.toLowerCase().endsWith('.pdf')`
IsPdfFile(file) == endsWith(toLowerCase(file.name), DotPdf)

IsTooLarge_atCeiling(file) == file.size >= MaxFileSize

\* `file.size > 10 * 1024 * 1024`
IsTooLarge(file) == file.size > MaxFileSize

\* docBefore is the document bound when the run starts, kept for comparison
NewRun(file) ==
    [pc |-> "upload", doc |-> NullId, docBefore |-> currentDocId,
     result |-> NullResult,
     steps |-> <<StepAt("reset"), StepAt("upload")>>,
     requests |-> <<"upload">>, rendered |-> FALSE]

\* App.handleFileUpload, from the call to `await API.uploadFile(file)`
handleFileUpload(file) ==
    /\ section = UploadSection
    /\ IF ~IsPdfFile(file)
       THEN /\ lastToast' = Toast("error", PleaseUploadPdf)
            /\ UNCHANGED <<dashVars, exportVars, utilVars>>
            /\ UNCHANGED <<appVars, pipeVars, chatVars, sessionsMade>>
       ELSE IF IsTooLarge(file)
       THEN /\ lastToast' = Toast("error", FileTooLarge)
            /\ UNCHANGED <<dashVars, exportVars, utilVars>>
            /\ UNCHANGED <<appVars, pipeVars, chatVars, sessionsMade>>
       ELSE /\ Len(runs) < MaxRuns
            /\ showSection(ProcessingSection)
            /\ progressStep' = StepAt("upload")
            /\ runs' = Append(runs, NewRun(file))
            /\ UNCHANGED <<dashVars, exportVars, utilVars>>
            /\ UNCHANGED <<appVars, timers, dashboardData, docsMade, chatVars,
                           sessionsMade, lastToast>>

\* the message of the Error thrown by API.uploadFile / API.extractClauses:
\* `error.detail || fallback` for a non-ok response, the fetch rejection's
\* own message otherwise
ErrorMessage(kind, detail, fallback) ==
    IF kind = "http" THEN (IF detail # "" THEN detail ELSE fallback)
    ELSE FailedToFetch

CatchToast_generic(message) == Toast("error", ProcessingError)

\* Toast.error(error.message || 'An error occurred during processing')
CatchToast(message) ==
    Toast("error", IF message # "" THEN message ELSE ProcessingError)

\* the catch block of handleFileUpload, entered by run r
CatchRun(r, message) ==
    /\ runs' = [runs EXCEPT ![r].pc = "failed"]
    /\ lastToast' = CatchToast(message)
    /\ timers' = timers \cup {r}

uploadOk_eager(r) ==
    /\ r \in 1..Len(runs) /\ runs[r].pc = "upload"
    /\ docsMade' = docsMade + 1
    /\ currentDocId' = docsMade + 1
    /\ runs' = [runs EXCEPT ![r].pc = "extract", ![r].doc = docsMade + 1,
                            ![r].steps = @ \o <<2, 3>>,
                            ![r].requests = Append(@, "extract")]
    /\ progressStep' = 3
    /\ lastToast' = Toast("success", UploadedOk)
    /\ UNCHANGED <<dashVars, exportVars, utilVars>>
    /\ UNCHANGED <<currentSessionId, extractionData, currentFilter, section,
                   timers, dashboardData, chatVars, sessionsMade>>

\* `await API.uploadFile(file)` resolves for run r
uploadOk(r) ==
    /\ r \in 1..Len(runs) /\ runs[r].pc = "upload"
    /\ docsMade' = docsMade + 1
    /\ currentDocId' = docsMade + 1
    /\ runs' = [runs EXCEPT ![r].pc = "delay1", ![r].doc = docsMade + 1]
    /\ lastToast' = Toast("success", UploadedOk)
    /\ UNCHANGED <<dashVars, exportVars, utilVars>>
    /\ UNCHANGED <<currentSessionId, extractionData, currentFilter, section,
                   progressStep, timers, dashboardData, chatVars, sessionsMade>>

\* `await API.uploadFile(file)` rejects for run r
uploadFail(r, kind, detail) ==
    /\ r \in 1..Len(runs) /\ runs[r].pc = "upload"
    /\ CatchRun(r, ErrorMessage(kind, detail, UploadFailed))
    /\ UNCHANGED <<dashVars, exportVars, utilVars>>
    /\ UNCHANGED <<appVars, section, progressStep, dashboardData, docsMade,
                   chatVars, sessionsMade>>

\* `await App.delay(1000)` after the upload resolves for run r
delay1Done(r) ==
    /\ r \in 1..Len(runs) /\ runs[r].pc = "delay1"
    /\ progressStep' = StepAt("text")
    /\ runs' = [runs EXCEPT ![r].pc = "delay2",
                            ![r].steps = Append(@, StepAt("text"))]
    /\ UNCHANGED <<dashVars, exportVars, utilVars>>
    /\ UNCHANGED <<appVars, section, timers, dashboardData, docsMade,
                   chatVars, sessionsMade, lastToast>>

\* `await App.delay(2000)` of step 2 resolves for run r: the extraction
\* request is issued
delay2Done(r) ==
    /\ r \in 1..Len(runs) /\ runs[r].pc = "delay2"
    /\ progressStep' = StepAt("clauses")
    /\ runs' = [runs EXCEPT ![r].pc = "extract",
                            ![r].steps = Append(@, StepAt("clauses")),
                            ![r].requests = Append(@, "extract")]
    /\ UNCHANGED <<dashVars, exportVars, utilVars>>
    /\ UNCHANGED <<appVars, section, timers, dashboardData, docsMade,
                   chatVars, sessionsMade, lastToast>>

\* ---------------------------------------------------------------- Dashboard
RiskLevels == {"HIGH", "MEDIUM", "LOW", "NOT_FOUND"}

\* the data-filter values of the .filter-btn buttons
Filters == {"all", "high", "medium", "low", "missing"}

levelToLowerCase_asIs(level) == level

\* `clause.risk_level.toLowerCase()`
levelToLowerCase(level) ==
    CASE level = "HIGH" -> "high"
      [] level = "MEDIUM" -> "medium"
      [] level = "LOW" -> "low"
      [] level = "NOT_FOUND" -> "not_found"

\* `const order = { 'HIGH': 0, 'MEDIUM': 1, 'LOW': 2, 'NOT_FOUND': 3 }`
order(level) ==
    CASE level = "HIGH" -> 0
      [] level = "MEDIUM" -> 1
      [] level = "LOW" -> 2
      [] level = "NOT_FOUND" -> 3

withOrder_reversed(clauses, rank) ==
    LET group == SelectSeq(clauses, LAMBDA c : order(c.risk_level) = rank) IN
    [i \in 1..Len(group) |-> group[Len(group) + 1 - i]]

\* the clauses whose risk_level has the order `rank`, in the order of `clauses`
withOrder(clauses, rank) ==
    SelectSeq(clauses, LAMBDA c : order(c.risk_level) = rank)

\* `[...clauses].sort((a, b) => order[a.risk_level] - order[b.risk_level])`:
\* a sorted copy, the argument is left as it is. The comparator puts the
\* smaller order first and holds clauses of one order equal, and
\* Array.prototype.sort is stable, so the copy is the clauses of order 0, then
\* those of order 1, 2 and 3, each group in the order of the argument
sortClauses(clauses) ==
    withOrder(clauses, 0) \o withOrder(clauses, 1)
        \o withOrder(clauses, 2) \o withOrder(clauses, 3)

\* the '...' that Utils.truncateText appends
Ellipsis == <<".", ".", ".">>

truncateText_inBudget(text, maxLength) ==
    IF text = <<>> \/ Len(text) <= maxLength THEN text
    ELSE SubSeq(text, 1, maxLength - Len(Ellipsis)) \o Ellipsis

\* Utils.truncateText on a string; `!text` holds of the empty string, and
\* `text.substring(0, maxLength)` is the first maxLength characters
truncateText(text, maxLength) ==
    IF text = <<>> \/ Len(text) <= maxLength THEN text
    ELSE SubSeq(text, 1, maxLength) \o Ellipsis

\* the character budget createClauseElement hands to truncateText
ClauseTextBudget == 200

\* the text shown for a clause without text, as one token
ClauseNotFoundText == <<"Clause not found in contract">>

\* `clauseText` of Dashboard.createClauseElement
clauseText(clause) ==
    IF clause.found /\ clause.extracted_text # <<>>
    THEN truncateText(clause.extracted_text, ClauseTextBudget)
    ELSE ClauseNotFoundText

\* Dashboard.createClauseElement: the element's clause, data-risk-level,
\* clause text and class `hidden`
createClauseElement(clause) ==
    [clause_type |-> clause.clause_type,
     riskLevel |-> levelToLowerCase(clause.risk_level),
     text |-> clauseText(clause),
     hidden |-> FALSE]

\* Dashboard.renderClausesList: the new children of #clausesList
renderClausesList(clauses) ==
    LET sortedClauses == sortClauses(clauses) IN
    [i \in 1..Len(sortedClauses) |-> createClauseElement(sortedClauses[i])]

\* one round of the forEach of Dashboard.filterClauses
filterItem(item, filter) ==
    CASE filter = "all" -> [item EXCEPT !.hidden = FALSE]
      [] filter = "high" -> [item EXCEPT !.hidden = (item.riskLevel # "high")]
      [] filter = "medium" ->
             [item EXCEPT !.hidden = (item.riskLevel # "medium")]
      [] filter = "low" -> [item EXCEPT !.hidden = (item.riskLevel # "low")]
      [] filter = "missing" ->
             [item EXCEPT !.hidden = (item.riskLevel # "not_found")]
      [] OTHER -> item

filterClauses_removing(items, filter) ==
    SelectSeq(items, LAMBDA item : ~filterItem(item, filter).hidden)

\* Dashboard.filterClauses on the children `items` of #clausesList
filterClauses(items, filter) ==
    [i \in 1..Len(items) |-> filterItem(items[i], filter)]

\* Math.round of an integer score
MathRound(score) == score

CountLevel(clauses, level) ==
    Cardinality({i \in 1..Len(clauses) : clauses[i].risk_level = level})

renderRiskOverview_recomputed(data) ==
    [score |-> MathRound(data.overall_risk_score),
     level |-> IF data.overall_risk_score >= 60 THEN "HIGH"
               ELSE IF data.overall_risk_score >= 30 THEN "MEDIUM"
               ELSE "LOW",
     strokeDashoffset |-> 251200 - 2512 * data.overall_risk_score,
     high |-> CountLevel(data.clauses, "HIGH"),
     medium |-> CountLevel(data.clauses, "MEDIUM"),
     low |-> CountLevel(data.clauses, "LOW"),
     missingCritical |-> CountLevel(data.clauses, "NOT_FOUND")]

\* Dashboard.renderRiskOverview. strokeDashoffset is 251.2 - 251.2 * score/100
\* in thousandths; the 300 ms timer that sets the gauge fires in the order
\* it was set, so the gauge is given with the rest
renderRiskOverview(data) ==
    [score |-> MathRound(data.overall_risk_score),
     level |-> data.risk_level,
     strokeDashoffset |-> 251200 - 2512 * data.overall_risk_score,
     high |-> data.high_risk_count,
     medium |-> data.medium_risk_count,
     low |-> data.low_risk_count,
     missingCritical |-> data.missing_critical_count]

\* Dashboard.render
render(data) ==
    /\ dashboardFileName' = data.filename
    /\ overview' = renderRiskOverview(data)
    /\ clauseItems' = renderClausesList(data.clauses)

\* the dashboard as the page is loaded
NoOverview ==
    [score |-> 0, level |-> NullText, strokeDashoffset |-> 251200,
     high |-> 0, medium |-> 0, low |-> 0, missingCritical |-> 0]

\* click on the .filter-btn whose data-filter is `filter`
filterClick(filter) ==
    /\ section = DashboardSection
    /\ currentFilter' = filter
    /\ clauseItems' = filterClauses(clauseItems, filter)
    /\ UNCHANGED <<currentDocId, currentSessionId, extractionData, pipeVars,
                   chatVars, sessionsMade, lastToast, dashboardFileName,
                   overview, exportVars, utilVars>>

\* App.handleExport, from the call to `await API.exportToExcel(...)`
handleExport ==
    /\ section = DashboardSection
    /\ IF currentDocId = NullId
       THEN /\ lastToast' = Toast("error", NoDocToExport)
            /\ UNCHANGED exportVars
       ELSE /\ Len(exportRequests) < MaxExports
            /\ lastToast' = Toast("info", GeneratingExcel)
            /\ exportRequests' = Append(exportRequests, currentDocId)
            /\ exportPending' = exportPending \cup {Len(exportRequests) + 1}
    /\ UNCHANGED <<appVars, pipeVars, chatVars, sessionsMade, dashVars,
                   utilVars>>

\* `await API.exportToExcel(...)` settles for the invocation e: the file was
\* handed to the browser, or the request failed
exportSettles(e, ok) ==
    /\ e \in exportPending
    /\ exportPending' = exportPending \ {e}
    /\ lastToast' =
           IF ok THEN Toast("success", ExcelDownloaded)
           ELSE ToastWith("error", FailedToExport, ExportFailed)
    /\ UNCHANGED <<appVars, pipeVars, chatVars, sessionsMade, dashVars,
                   exportRequests, utilVars>>

\* clause lists of up to MaxClauses findings; clause_type is the upstream
\* position, and risk_level is NOT_FOUND exactly when found is false
MaxClauses == 3
ClauseLists ==
    UNION {{[i \in 1..n |-> [clause_type |-> i, risk_level |-> levels[i],
                              found |-> (levels[i] # "NOT_FOUND"),
                              extracted_text |->
                                  IF levels[i] # "NOT_FOUND" THEN <<"t">>
                                  ELSE <<>>]] :
              levels \in [1..n -> RiskLevels]} : n \in 0..MaxClauses}

\* the longest clause text handed to createClauseElement
MaxTextLen == 203

\* a text of n characters, "a" and "b" in turn
TextOf(n, first) ==
    [i \in 1..n |-> IF (i + first) % 2 = 0 THEN "a" ELSE "b"]

\* lists of one clause whose text is up to MaxTextLen characters long
TextClauseLists ==
    {<<[clause_type |-> 1, risk_level |-> level,
        found |-> (level # "NOT_FOUND"),
        extracted_text |-> TextOf(n, first)]>> :
        level \in {"HIGH", "NOT_FOUND"}, n \in 0..MaxTextLen,
        first \in {0, 1}}

\* a call `Dashboard.renderClausesList(callArg)` on the shown dashboard; the
\* sort works on the copy `[...clauses]`
renderClausesListCall ==
    /\ section = DashboardSection
    /\ callResult = NullText
    /\ clauseItems' = renderClausesList(callArg)
    /\ callArg' = callArg
    /\ callResult' = "returned"
    /\ UNCHANGED <<appVars, pipeVars, chatVars, sessionsMade, lastToast,
                   dashboardFileName, overview, exportVars>>

\* results whose aggregates need not agree with their clause lists
Results ==
    [doc_id : {1}, filename : {1},
     overall_risk_score : {0, 29, 72, 100}, risk_level : {"HIGH", "LOW"},
     high_risk_count : {0, 2}, medium_risk_count : {1}, low_risk_count : {0},
     missing_critical_count : {0, 1},
     clauses : ClauseLists]

\* a call `Dashboard.renderRiskOverview(callArg)`
renderRiskOverviewCall ==
    /\ callResult = NullText
    /\ overview' = renderRiskOverview(callArg)
    /\ callResult' = "returned"
    /\ UNCHANGED <<callArg, appVars, pipeVars, chatVars, sessionsMade,
                   lastToast, dashboardFileName, clauseItems, exportVars>>

\* the Document Analysis Result the extraction service returns for a document
ExtractionResult(doc) ==
    [doc_id |-> doc, filename |-> doc,
     overall_risk_score |-> 72, risk_level |-> "HIGH",
     high_risk_count |-> 1, medium_risk_count |-> 1, low_risk_count |-> 0,
     missing_critical_count |-> 1,
     clauses |-> <<[clause_type |-> 1, risk_level |-> "MEDIUM",
                    found |-> TRUE, extracted_text |-> <<"t">>],
                   [clause_type |-> 2, risk_level |-> "NOT_FOUND",
                    found |-> FALSE, extracted_text |-> <<>>],
                   [clause_type |-> 3, risk_level |-> "HIGH",
                    found |-> TRUE, extracted_text |-> <<"t">>]>>]

\* `await API.extractClauses(doc_id)` resolves for run r
extractOk(r) ==
    /\ r \in 1..Len(runs) /\ runs[r].pc = "extract"
    /\ extractionData' = ExtractionResult(runs[r].doc)
    /\ progressStep' = StepAt("risk")
    /\ runs' = [runs EXCEPT ![r].pc = "delay4",
                            ![r].result = ExtractionResult(runs[r].doc),
                            ![r].steps = Append(@, StepAt("risk"))]
    /\ UNCHANGED <<dashVars, exportVars, utilVars>>
    /\ UNCHANGED <<currentDocId, currentSessionId, currentFilter, section,
                   timers, dashboardData, docsMade, chatVars, sessionsMade,
                   lastToast>>

\* `await API.extractClauses(doc_id)` rejects for run r
extractFail(r, kind, detail) ==
    /\ r \in 1..Len(runs) /\ runs[r].pc = "extract"
    /\ CatchRun(r, ErrorMessage(kind, detail, ExtractionFailed))
    /\ UNCHANGED <<dashVars, exportVars, utilVars>>
    /\ UNCHANGED <<appVars, section, progressStep, dashboardData, docsMade,
                   chatVars, sessionsMade>>

\* `await App.delay(2000)` of step 4 resolves for run r
delay4Done(r) ==
    /\ r \in 1..Len(runs) /\ runs[r].pc = "delay4"
    /\ progressStep' = StepAt("complete")
    /\ runs' = [runs EXCEPT ![r].pc = "delay5",
                            ![r].steps = Append(@, StepAt("complete"))]
    /\ UNCHANGED <<dashVars, exportVars, utilVars>>
    /\ UNCHANGED <<appVars, section, timers, dashboardData, docsMade,
                   chatVars, sessionsMade, lastToast>>

\* `await App.delay(1000)` of step 5 resolves for run r: the dashboard is
\* shown and rendered
delay5Done(r) ==
    /\ r \in 1..Len(runs) /\ runs[r].pc = "delay5"
    /\ runs' = [runs EXCEPT ![r].pc = "done", ![r].rendered = TRUE]
    /\ showSection(DashboardSection)
    /\ dashboardData' = runs[r].result
    /\ lastToast' = Toast("success", AnalysisComplete)
    /\ render(runs[r].result)
    /\ UNCHANGED <<exportVars, utilVars>>
    /\ UNCHANGED <<appVars, progressStep, timers, docsMade, chatVars,
                   sessionsMade>>

timerFires_idle(r) ==
    /\ r \in timers
    /\ timers' = timers \ {r}
    /\ UNCHANGED <<dashVars, exportVars, utilVars>>
    /\ UNCHANGED <<appVars, section, progressStep, runs, dashboardData,
                   docsMade, chatVars, sessionsMade, lastToast>>

\* the setTimeout callback of the catch block of run r
timerFires(r) ==
    /\ r \in timers
    /\ timers' = timers \ {r}
    /\ showSection(UploadSection)
    /\ UNCHANGED <<dashVars, exportVars, utilVars>>
    /\ UNCHANGED <<appVars, progressStep, runs, dashboardData, docsMade,
                   chatVars, sessionsMade, lastToast>>

navUpload_fresh ==
    /\ showSection(UploadSection)
    /\ sessionsMade < MaxResets + 1
    /\ currentSessionId' = sessionsMade + 1
    /\ sessionsMade' = sessionsMade + 1
    /\ UNCHANGED <<dashVars, exportVars, utilVars>>
    /\ UNCHANGED <<currentDocId, extractionData, currentFilter, progressStep,
                   runs, timers, dashboardData, docsMade, chatVars, lastToast>>

\* click on the nav link whose data-page is `upload`
navUpload ==
    /\ showSection(UploadSection)
    /\ UNCHANGED <<dashVars, exportVars, utilVars>>
    /\ UNCHANGED <<appVars, progressStep, runs, timers, dashboardData,
                   docsMade, chatVars, sessionsMade, lastToast>>

\* Utils.generateSessionId: a fresh id on every call
generateSessionId == sessionsMade + 1

\* App.resetApplication (the new-analysis button)
resetApplication ==
    /\ section = DashboardSection
    /\ sessionsMade < MaxResets + 1
    /\ currentDocId' = NullId
    /\ extractionData' = NullResult
    /\ currentSessionId' = generateSessionId
    /\ sessionsMade' = sessionsMade + 1
    /\ currentFilter' = "all"
    /\ showSection(UploadSection)
    /\ lastToast' = Toast("info", ReadyForNew)
    /\ UNCHANGED <<dashVars, exportVars, utilVars>>
    /\ UNCHANGED <<progressStep, runs, timers, dashboardData, docsMade,
                   chatVars>>

\* --------------------------------------------------------------------- Chat
Welcome == [kind |-> "welcome", text |-> <<>>, sources |-> <<>>]
Typing == [kind |-> "typing", text |-> <<>>, sources |-> <<>>]
WelcomeState == <<Welcome>>

ApologyText == <<"S", "o", "r", "r", "y">>

RECURSIVE Without(_, _)
\* the sequence t with its first element of the given kind removed
Without(t, kind) ==
    IF t = <<>> THEN <<>>
    ELSE IF Head(t).kind = kind THEN Tail(t)
    ELSE <<Head(t)>> \o Without(Tail(t), kind)

\* the text after `Sources:` under an assistant message
sourcesList(sources) ==
    [i \in 1..Len(sources) |->
        IF sources[i].clause_type # NullText
        THEN <<sources[i].clause_type, sources[i].risk_level>>
        ELSE <<"Contract text">>]

addMessage_nosources(t, text, sender, sources) ==
    Append(Without(t, "welcome"),
           [kind |-> sender, text |-> formatMessageText(text),
            sources |-> <<>>])

addMessage_dedup(t, text, sender, sources) ==
    Append(SelectSeq(Without(t, "welcome"),
                     LAMBDA e : ~(e.kind = sender
                                  /\ e.text = formatMessageText(text))),
           [kind |-> sender, text |-> formatMessageText(text),
            sources |-> IF sender = "ai" THEN sourcesList(sources) ELSE <<>>])

\* Chat.addMessage on the children t of #chatMessages
addMessage(t, text, sender, sources) ==
    Append(Without(t, "welcome"),
           [kind |-> sender, text |-> formatMessageText(text),
            sources |-> IF sender = "ai" THEN sourcesList(sources) ELSE <<>>])

addTypingIndicator(t) == Append(t, Typing)

removeTypingIndicator_noop(t) == t

removeTypingIndicator(t) == Without(t, "typing")

Busy_unguarded == FALSE

\* `if (Chat.isProcessing) return;`
Busy == isProcessing

\* Chat.sendMessage with `raw` in the chat box, from the call to
\* `await API.sendChatMessage(...)`
sendMessage(raw) ==
    /\ section = DashboardSection
    /\ LET query == trim(raw) IN
       IF query = <<>>
       THEN /\ lastToast' = Toast("error", EnterQuestion)
            /\ chatInput' = raw
            /\ UNCHANGED <<dashVars, exportVars, utilVars>>
            /\ UNCHANGED <<appVars, pipeVars, isProcessing, sendBtnDisabled,
                           transcript, chatPending, chatRequests,
                           clearPending, clearRequests, sessionsMade>>
       ELSE IF currentDocId = NullId
       THEN /\ lastToast' = Toast("error", NoDocument)
            /\ chatInput' = raw
            /\ UNCHANGED <<dashVars, exportVars, utilVars>>
            /\ UNCHANGED <<appVars, pipeVars, isProcessing, sendBtnDisabled,
                           transcript, chatPending, chatRequests,
                           clearPending, clearRequests, sessionsMade>>
       ELSE IF Busy
       THEN /\ chatInput' = raw
            /\ UNCHANGED <<dashVars, exportVars, utilVars>>
            /\ UNCHANGED <<appVars, pipeVars, isProcessing, sendBtnDisabled,
                           transcript, chatPending, chatRequests,
                           clearPending, clearRequests, sessionsMade,
                           lastToast>>
       ELSE /\ Len(chatRequests) < MaxSends
            /\ isProcessing' = TRUE
            /\ sendBtnDisabled' = TRUE
            /\ transcript' =
                   addTypingIndicator(addMessage(transcript, query, "user", <<>>))
            /\ chatInput' = <<>>
            /\ chatRequests' =
                   Append(chatRequests,
                          [session_id |-> currentSessionId,
                           doc_id |-> currentDocId, query |-> query])
            /\ chatPending' =
                   chatPending \cup {[id |-> Len(chatRequests) + 1,
                                      query |-> query]}
            /\ UNCHANGED <<dashVars, exportVars, utilVars>>
            /\ UNCHANGED <<appVars, pipeVars, clearPending, clearRequests,
                           sessionsMade, lastToast>>

sendFinally_half ==
    /\ isProcessing' = FALSE
    /\ sendBtnDisabled' = sendBtnDisabled

\* the `finally` block of sendMessage
sendFinally ==
    /\ isProcessing' = FALSE
    /\ sendBtnDisabled' = FALSE

\* `await API.sendChatMessage(...)` resolves for the invocation p
sendOk(p, answer, sources) ==
    /\ p \in chatPending
    /\ chatPending' = chatPending \ {p}
    /\ transcript' =
           addMessage(removeTypingIndicator(transcript), answer, "ai", sources)
    /\ sendFinally
    /\ UNCHANGED <<dashVars, exportVars, utilVars>>
    /\ UNCHANGED <<appVars, pipeVars, chatInput, chatRequests, clearPending,
                   clearRequests, sessionsMade, lastToast>>

\* `await API.sendChatMessage(...)` rejects for the invocation p
sendFail(p, message) ==
    /\ p \in chatPending
    /\ chatPending' = chatPending \ {p}
    /\ lastToast' = ToastWith("error", FailedResponse, message)
    /\ transcript' =
           addMessage(removeTypingIndicator(transcript), ApologyText, "ai", <<>>)
    /\ sendFinally
    /\ UNCHANGED <<dashVars, exportVars, utilVars>>
    /\ UNCHANGED <<appVars, pipeVars, chatInput, chatRequests, clearPending,
                   clearRequests, sessionsMade>>

clearChat_eager ==
    /\ section = DashboardSection
    /\ currentSessionId # NullId
    /\ Len(clearRequests) < MaxClears
    /\ clearRequests' = Append(clearRequests, currentSessionId)
    /\ clearPending' =
           clearPending \cup {[id |-> Len(clearRequests) + 1,
                               session_id |-> currentSessionId]}
    /\ transcript' = WelcomeState
    /\ UNCHANGED <<dashVars, exportVars, utilVars>>
    /\ UNCHANGED <<appVars, pipeVars, isProcessing, sendBtnDisabled,
                   chatInput, chatPending, chatRequests,
                   sessionsMade, lastToast>>

\* Chat.clearChat, from the call to `await API.clearChatSession(...)`
clearChat ==
    /\ section = DashboardSection
    /\ currentSessionId # NullId
    /\ Len(clearRequests) < MaxClears
    /\ clearRequests' = Append(clearRequests, currentSessionId)
    /\ clearPending' =
           clearPending \cup {[id |-> Len(clearRequests) + 1,
                               session_id |-> currentSessionId]}
    /\ UNCHANGED <<dashVars, exportVars, utilVars>>
    /\ UNCHANGED <<appVars, pipeVars, isProcessing, sendBtnDisabled,
                   chatInput, transcript, chatPending, chatRequests,
                   sessionsMade, lastToast>>

clearSettles_always(c, ok) ==
    /\ c \in clearPending
    /\ clearPending' = clearPending \ {c}
    /\ transcript' = WelcomeState
    /\ lastToast' =
           IF ok THEN Toast("success", ChatCleared)
           ELSE Toast("error", FailedToClear)
    /\ UNCHANGED <<dashVars, exportVars, utilVars>>
    /\ UNCHANGED <<appVars, pipeVars, isProcessing, sendBtnDisabled,
                   chatInput, chatPending, chatRequests, clearRequests,
                   sessionsMade>>

\* `await API.clearChatSession(...)` settles for the invocation c
clearSettles(c, ok) ==
    /\ c \in clearPending
    /\ clearPending' = clearPending \ {c}
    /\ IF ok
       THEN /\ transcript' = WelcomeState
            /\ lastToast' = Toast("success", ChatCleared)
       ELSE /\ transcript' = transcript
            /\ lastToast' = Toast("error", FailedToClear)
    /\ UNCHANGED <<dashVars, exportVars, utilVars>>
    /\ UNCHANGED <<appVars, pipeVars, isProcessing, sendBtnDisabled,
                   chatInput, chatPending, chatRequests, clearRequests,
                   sessionsMade>>

\* -------------------------------------------------------------------- Utils
\* RISK_CONFIG.HIGH.min and RISK_CONFIG.MEDIUM.min
HighMin == 60
MediumMin == 30

\* scores run from ScoreMargin below 0 to ScoreMargin above 100
ScoreMargin == 20
Scores == (0 - ScoreMargin)..(100 + ScoreMargin)

getRiskLevel_strict(score) ==
    IF score > HighMin THEN "HIGH"
    ELSE IF score > MediumMin THEN "MEDIUM"
    ELSE "LOW"

\* Utils.getRiskLevel
getRiskLevel(score) ==
    IF score >= HighMin THEN "HIGH"
    ELSE IF score >= MediumMin THEN "MEDIUM"
    ELSE "LOW"

\* no call of a Utils function is under study
NoCall == callArg = 0 /\ callResult = NullText

\* a call `Utils.getRiskLevel(callArg)` returns
getRiskLevelReturns ==
    /\ callResult = NullText
    /\ callResult' = getRiskLevel(callArg)
    /\ UNCHANGED <<callArg, appVars, pipeVars, chatVars, sessionsMade,
                   lastToast, dashVars, exportVars>>

\* ------------------------------------------------------------ specifications

\* ------------------------------------------------------------ specification
\* the state once App.init and Chat.init have run
\* the application's state after App.init
Started ==
    /\ currentDocId = NullId
    /\ currentSessionId = 1
    /\ sessionsMade = 1
    /\ extractionData = NullResult
    /\ currentFilter = "all"
    /\ section = UploadSection
    /\ progressStep = 0
    /\ runs = <<>>
    /\ timers = {}
    /\ dashboardData = NullResult
    /\ docsMade = 0
    /\ isProcessing = FALSE
    /\ sendBtnDisabled = FALSE
    /\ chatInput = <<>>
    /\ transcript = WelcomeState
    /\ chatPending = {}
    /\ chatRequests = <<>>
    /\ clearPending = {}
    /\ clearRequests = <<>>
    /\ lastToast = NoToast
    /\ dashboardFileName = NullId
    /\ overview = NoOverview
    /\ clauseItems = <<>>
    /\ exportPending = {}
    /\ exportRequests = <<>>

Init == Started /\ NoCall

\* Dashboard.render(data) has run, no filter was clicked since and nothing
\* was exported
Rendered(data) ==
    /\ dashboardFileName = data.filename
    /\ overview = renderRiskOverview(data)
    /\ clauseItems = renderClausesList(data.clauses)
    /\ exportPending = {}
    /\ exportRequests = <<>>

\* A state of Spec in which the dashboard is shown: one run has completed.
DashboardShown ==
    /\ currentDocId = 1
    /\ currentSessionId = 1
    /\ sessionsMade = 1
    /\ extractionData = ExtractionResult(1)
    /\ currentFilter = "all"
    /\ section = DashboardSection
    /\ progressStep = 5
    /\ runs = <<[pc |-> "done", doc |-> 1, docBefore |-> NullId,
                 result |-> ExtractionResult(1),
                 steps |-> <<0, 1, 2, 3, 4, 5>>,
                 requests |-> <<"upload", "extract">>, rendered |-> TRUE]>>
    /\ timers = {}
    /\ dashboardData = ExtractionResult(1)
    /\ Rendered(ExtractionResult(1))
    /\ docsMade = 1
    /\ lastToast = Toast("success", AnalysisComplete)

ChatUntouched ==
    /\ isProcessing = FALSE
    /\ sendBtnDisabled = FALSE
    /\ chatInput = <<>>
    /\ transcript = WelcomeState
    /\ chatPending = {}
    /\ chatRequests = <<>>
    /\ clearPending = {}
    /\ clearRequests = <<>>

\* A state of Spec in which the dashboard is shown with no document bound:
\* two runs overlapped, the new-analysis button was pressed on the dashboard
\* of the first to complete, and the second then completed.
DashboardUnbound ==
    /\ currentDocId = NullId
    /\ currentSessionId = 2
    /\ sessionsMade = 2
    /\ extractionData = NullResult
    /\ currentFilter = "all"
    /\ section = DashboardSection
    /\ progressStep = 5
    /\ runs = <<[pc |-> "done", doc |-> 1, docBefore |-> NullId,
                 result |-> ExtractionResult(1),
                 steps |-> <<0, 1, 2, 3, 4, 5>>,
                 requests |-> <<"upload", "extract">>, rendered |-> TRUE],
                [pc |-> "done", doc |-> 2, docBefore |-> NullId,
                 result |-> ExtractionResult(2),
                 steps |-> <<0, 1, 2, 3, 4, 5>>,
                 requests |-> <<"upload", "extract">>, rendered |-> TRUE]>>
    /\ timers = {}
    /\ dashboardData = ExtractionResult(2)
    /\ Rendered(ExtractionResult(2))
    /\ docsMade = 2
    /\ lastToast = Toast("success", AnalysisComplete)

\* both DashboardShown and DashboardUnbound are reachable states of Spec
InitChat == (DashboardShown \/ DashboardUnbound) /\ ChatUntouched /\ NoCall

FailureKinds == {"http", "network"}

\* the pipeline, navigation and reset handlers
Next ==
    \/ \E file \in Files : handleFileUpload(file)
    \/ \E r \in 1..MaxRuns : uploadOk(r)
    \/ \E r \in 1..MaxRuns, k \in FailureKinds, d \in Details :
           uploadFail(r, k, d)
    \/ \E r \in 1..MaxRuns : delay1Done(r)
    \/ \E r \in 1..MaxRuns : delay2Done(r)
    \/ \E r \in 1..MaxRuns : extractOk(r)
    \/ \E r \in 1..MaxRuns, k \in FailureKinds, d \in Details :
           extractFail(r, k, d)
    \/ \E r \in 1..MaxRuns : delay4Done(r)
    \/ \E r \in 1..MaxRuns : delay5Done(r)
    \/ \E r \in 1..MaxRuns : timerFires(r)
    \/ navUpload
    \/ resetApplication

Spec == Init /\ [][Next]_vars

\* what the browser's event loop guarantees: a timer that has been set fires.
\* Every timer of the pipeline is one of `App.delay` or the setTimeout of the
\* catch block; a response of the server is not guaranteed
TimersFire ==
    /\ WF_vars(\E r \in 1..MaxRuns : delay1Done(r))
    /\ WF_vars(\E r \in 1..MaxRuns : delay2Done(r))
    /\ WF_vars(\E r \in 1..MaxRuns : delay4Done(r))
    /\ WF_vars(\E r \in 1..MaxRuns : delay5Done(r))
    /\ WF_vars(\E r \in 1..MaxRuns : timerFires(r))

\* the pipeline, navigation and reset handlers with one file that passes
\* validation and one kind of failure of each request
NextLive ==
    \/ handleFileUpload([name |-> <<"a", ".", "p", "d", "f">>, size |-> 0])
    \/ \E r \in 1..MaxRuns : uploadOk(r)
    \/ \E r \in 1..MaxRuns : uploadFail(r, "http", "")
    \/ \E r \in 1..MaxRuns : delay1Done(r)
    \/ \E r \in 1..MaxRuns : delay2Done(r)
    \/ \E r \in 1..MaxRuns : extractOk(r)
    \/ \E r \in 1..MaxRuns : extractFail(r, "http", "")
    \/ \E r \in 1..MaxRuns : delay4Done(r)
    \/ \E r \in 1..MaxRuns : delay5Done(r)
    \/ \E r \in 1..MaxRuns : timerFires(r)
    \/ navUpload
    \/ resetApplication

SpecLive == Init /\ [][NextLive]_vars /\ TimersFire

\* the chat handlers, with the reset that rebinds the session under them
NextChat ==
    \/ \E raw \in ChatInputs : sendMessage(raw)
    \/ \E p \in chatPending, a \in Answers, src \in Sources : sendOk(p, a, src)
    \/ \E p \in chatPending, k \in FailureKinds, d \in Details :
           sendFail(p, ErrorMessage(k, d, ChatRequestFailed))
    \/ clearChat
    \/ \E c \in clearPending, ok \in BOOLEAN : clearSettles(c, ok)
    \/ resetApplication

SpecChat == InitChat /\ [][NextChat]_vars

\* Utils.getRiskLevel on every score of Scores, the application just started
InitRisk == Started /\ callArg \in Scores /\ callResult = NullText

NextRisk == getRiskLevelReturns

SpecRisk == InitRisk /\ [][NextRisk]_vars

\* the dashboard's handlers (filter buttons, export, new analysis) with the
\* navigation and the steps of runs that succeed, from the dashboard of a
\* completed run
NextDash ==
    \/ \E filter \in Filters : filterClick(filter)
    \/ handleExport
    \/ \E e \in exportPending, ok \in BOOLEAN : exportSettles(e, ok)
    \/ navUpload
    \/ resetApplication
    \/ handleFileUpload([name |-> <<"a", ".", "p", "d", "f">>, size |-> 0])
    \/ \E r \in 1..MaxRuns : uploadOk(r)
    \/ \E r \in 1..MaxRuns : delay1Done(r)
    \/ \E r \in 1..MaxRuns : delay2Done(r)
    \/ \E r \in 1..MaxRuns : extractOk(r)
    \/ \E r \in 1..MaxRuns : delay4Done(r)
    \/ \E r \in 1..MaxRuns : delay5Done(r)

InitDash == DashboardShown /\ ChatUntouched /\ NoCall

SpecDash == InitDash /\ [][NextDash]_vars

\* Dashboard.renderClausesList on every list of ClauseLists and the filter
\* buttons, on the dashboard of a completed run
InitClauses ==
    /\ DashboardShown /\ ChatUntouched
    /\ callArg \in ClauseLists
    /\ callResult = NullText

NextClauses ==
    \/ renderClausesListCall
    \/ \E filter \in Filters : filterClick(filter)

SpecClauses == InitClauses /\ [][NextClauses]_vars

\* Dashboard.renderClausesList on every list of TextClauseLists, on the
\* dashboard of a completed run
InitText ==
    /\ DashboardShown /\ ChatUntouched
    /\ callArg \in TextClauseLists
    /\ callResult = NullText

NextText == renderClausesListCall

SpecText == InitText /\ [][NextText]_vars

\* Dashboard.renderRiskOverview on every result of Results
InitOverview ==
    /\ DashboardShown /\ ChatUntouched
    /\ callArg \in Results
    /\ callResult = NullText

NextOverview == renderRiskOverviewCall

SpecOverview == InitOverview /\ [][NextOverview]_vars

\* ================================================================== claims

ActivePcs == {"upload", "delay1", "delay2", "extract", "delay4", "delay5"}

ActiveRuns == {r \in 1..Len(runs) : runs[r].pc \in ActivePcs}

UserTurn(query) ==
    [kind |-> "user", text |-> formatMessageText(query), sources |-> <<>>]

AllWhite(raw) == \A i \in 1..Len(raw) : IsWhite(raw[i])

HasTyping(t) == \E i \in 1..Len(t) : t[i].kind = "typing"

\* C1: a sendMessage call with a non-blank query and a bound document leaves
\* the request log and the transcript alone while an earlier request is
\* outstanding, and issues its request when none is; never are two chat
\* requests outstanding.
C1_SingleFlight ==
    /\ [](Cardinality(chatPending) <= 1)
    /\ [][\A raw \in ChatInputs :
            (sendMessage(raw) /\ ~AllWhite(raw) /\ currentDocId # NullId)
            => IF chatPending # {}
               THEN /\ chatRequests' = chatRequests
                    /\ transcript' = transcript
                    /\ chatPending' = chatPending
               ELSE /\ Len(chatRequests') = Len(chatRequests) + 1
                    /\ Cardinality(chatPending') = 1]_vars

\* a second send was accepted after the first resolved, and a further send
\* was turned away while the second is outstanding
C1_Witness ==
    /\ Len(chatRequests) = 2
    /\ chatPending # {}
    /\ ~AllWhite(chatInput)
    /\ currentDocId # NullId

\* C2: at most one pipeline run has an outstanding stage at any time.
C2_OneActiveRun == Cardinality(ActiveRuns) <= 1

\* C3 as stated: a completed run has reported exactly the steps 1,2,3,4,5.
C3_StepsOneToFive ==
    \A r \in 1..Len(runs) :
        runs[r].pc = "done" => runs[r].steps = <<1, 2, 3, 4, 5>>

\* C3, amended: the steps a run reports are a prefix of 0,1,2,3,4,5 (the 0
\* is the reset made on entering the processing section), and a completed
\* run has reported all six, in that order.
C3_StepsZeroToFive ==
    \A r \in 1..Len(runs) :
        /\ Len(runs[r].steps) <= 6
        /\ runs[r].steps = SubSeq(<<0, 1, 2, 3, 4, 5>>, 1, Len(runs[r].steps))
        /\ runs[r].pc = "done" => Len(runs[r].steps) = 6

C3_Witness ==
    \E r \in 1..Len(runs) :
        runs[r].pc = "done" /\ runs[r].steps = <<0, 1, 2, 3, 4, 5>>

\* what the user should read after a failure: the server's detail when it
\* sent one, the stage's own message when it did not, the network error's
\* message when the request never completed
FailureMessage(kind, detail, stage) ==
    CASE kind = "network" -> FailedToFetch
      [] kind = "http" /\ detail = "" -> stage
      [] OTHER -> detail

\* C4: when the upload or the extraction of a run fails, the error's message
\* is shown as an error toast and the run is over: its record of reported
\* steps and issued requests never grows again and it is never rendered.
C4_FailureStops ==
    /\ [](\A r \in 1..Len(runs) :
            runs[r].pc = "failed" =>
                /\ ~runs[r].rendered
                /\ IF runs[r].doc = NullId
                   THEN /\ runs[r].steps = <<0, 1>>
                        /\ runs[r].requests = <<"upload">>
                   ELSE /\ runs[r].steps = <<0, 1, 2, 3>>
                        /\ runs[r].requests = <<"upload", "extract">>)
    /\ [][\A r \in 1..Len(runs) :
            /\ \A k \in FailureKinds, d \in Details :
                   /\ uploadFail(r, k, d) =>
                          /\ runs'[r].pc = "failed"
                          /\ lastToast' = Toast("error", FailureMessage(k, d, UploadFailed))
                   /\ extractFail(r, k, d) =>
                          /\ runs'[r].pc = "failed"
                          /\ lastToast' = Toast("error", FailureMessage(k, d, ExtractionFailed))
            /\ runs[r].pc = "failed" => runs'[r] = runs[r]]_vars

\* a run has just failed at the extraction stage with the server's detail
\* shown, while another run is still under way
C4_Witness ==
    \E r, q \in 1..Len(runs) :
        /\ runs[r].pc = "failed" /\ runs[r].doc # NullId
        /\ lastToast = Toast("error", "Invalid PDF")
        /\ runs[q].pc \in ActivePcs

\* the turns of t: its elements other than the welcome block and the
\* typing placeholder
Turns(t) == SelectSeq(t, LAMBDA e : e.kind \notin {"welcome", "typing"})

AiTurn(text, shown) ==
    [kind |-> "ai", text |-> formatMessageText(text), sources |-> shown]

\* how the sources of a response read under the answer
ShownSources(src) ==
    [i \in 1..Len(src) |->
        IF src[i].clause_type = NullText THEN <<"Contract text">>
        ELSE <<src[i].clause_type, src[i].risk_level>>]

\* C5: neither step of a clearChat whose request fails changes the
\* transcript: the call leaves it as it is, and so does the step that handles
\* the failure, which shows an error toast.
C5_FailedClearKeepsTranscript ==
    [][/\ clearChat => transcript' = transcript
       /\ \A c \in clearPending :
            clearSettles(c, FALSE)
            => /\ transcript' = transcript
               /\ lastToast' = Toast("error", FailedToClear)]_vars

\* a clear has failed over a transcript that holds a question and its answer
C5_Witness ==
    /\ lastToast = Toast("error", FailedToClear)
    /\ clearPending = {}
    /\ Len(Turns(transcript)) >= 2

\* C6: the clearChat call sends the DELETE for the current session id and
\* leaves the transcript alone; the transcript goes back to the welcome
\* state exactly in the step that handles the success of such a request.
C6_ClearAfterServer ==
    [][/\ clearChat
          => /\ clearRequests' = Append(clearRequests, currentSessionId)
             /\ transcript' = transcript
       /\ \A c \in clearPending :
            clearSettles(c, TRUE)
            => /\ transcript' = WelcomeState
               /\ \E i \in 1..Len(clearRequests) :
                      i = c.id /\ clearRequests[i] = c.session_id
       /\ (transcript # WelcomeState /\ transcript' = WelcomeState)
          => \E c \in clearPending : clearSettles(c, TRUE)]_vars

\* a clear has succeeded after a question was asked
C6_Witness ==
    /\ lastToast = Toast("success", ChatCleared)
    /\ transcript = WelcomeState
    /\ Len(chatRequests) >= 1
    /\ Len(clearRequests) >= 1

\* C7: the step that accepts a send appends the user's turn and then the
\* typing placeholder, with the request still outstanding after it; the step
\* that handles the response leaves no placeholder and appends one assistant
\* turn with the response's answer and sources after all turns present; as
\* long as the placeholder is still displayed, the turn right before the new
\* assistant turn is the user's turn of that send.
C7_OptimisticThenAnswer ==
    [][/\ \A raw \in ChatInputs :
            (sendMessage(raw) /\ Len(chatRequests') = Len(chatRequests) + 1)
            => /\ transcript' =
                      Turns(transcript) \o <<UserTurn(trim(raw)), Typing>>
               /\ \E p \in chatPending' :
                      p.id = Len(chatRequests') /\ p.query = trim(raw)
       /\ \A p \in chatPending, a \in Answers, src \in Sources :
            sendOk(p, a, src)
            => /\ ~HasTyping(transcript')
               /\ transcript' =
                      Turns(transcript) \o <<AiTurn(a, ShownSources(src))>>
               /\ HasTyping(transcript)
                  => /\ Turns(transcript) # <<>>
                     /\ Turns(transcript)[Len(Turns(transcript))] =
                            UserTurn(p.query)]_vars

\* a question is followed by its answer, which carries sources
C7_Witness ==
    /\ Len(transcript) = 2
    /\ transcript[1].kind = "user"
    /\ transcript[2].kind = "ai"
    /\ transcript[2].sources # <<>>
    /\ chatPending = {}

\* C8: the step that handles a failed chat request leaves no placeholder,
\* keeps every turn present and appends one apology turn without sources
\* after them (right after the user's turn of that send, as long as the
\* placeholder is still displayed); it sends nothing, and no chat request
\* ever carries the apology text.
C8_FailureApology ==
    /\ [](\A i \in 1..Len(chatRequests) :
            /\ chatRequests[i].query # ApologyText
            /\ \E raw \in ChatInputs : chatRequests[i].query = trim(raw))
    /\ [][\A p \in chatPending, k \in FailureKinds, d \in Details :
            sendFail(p, ErrorMessage(k, d, ChatRequestFailed))
            => /\ ~HasTyping(transcript')
               /\ transcript' = Turns(transcript) \o <<AiTurn(ApologyText, <<>>)>>
               /\ chatRequests' = chatRequests
               /\ HasTyping(transcript)
                  => /\ Turns(transcript) # <<>>
                     /\ Turns(transcript)[Len(Turns(transcript))] =
                            UserTurn(p.query)]_vars

\* an answered question is followed by a second question and the apology
C8_Witness ==
    /\ Len(transcript) = 4
    /\ transcript[2].kind = "ai" /\ transcript[2].text # ApologyText
    /\ transcript[3].kind = "user"
    /\ transcript[4] = AiTurn(ApologyText, <<>>)
    /\ chatPending = {}

\* C9: a sendMessage call whose input is blank, or made with no document
\* bound, shows an error toast and leaves the request log, the outstanding
\* requests, the transcript, the in-flight flag and the send button alone.
C9_InvalidSendRejected ==
    [][\A raw \in ChatInputs :
         (sendMessage(raw) /\ (AllWhite(raw) \/ currentDocId = NullId))
         => /\ lastToast' =
                   Toast("error",
                         IF AllWhite(raw) THEN EnterQuestion ELSE NoDocument)
            /\ UNCHANGED <<chatRequests, chatPending, transcript,
                           isProcessing, sendBtnDisabled>>]_vars

\* a question was turned away because no document is bound
C9_Witness ==
    /\ lastToast = Toast("error", NoDocument)
    /\ ~AllWhite(chatInput)
    /\ currentDocId = NullId
    /\ chatRequests = <<>>

\* a blank input was turned away while a request is outstanding
C9_BlankWitness ==
    /\ lastToast = Toast("error", EnterQuestion)
    /\ chatInput = <<" ">>
    /\ isProcessing

\* C10: handleFileUpload of a file whose lower-cased name does not end in
\* .pdf shows the validation error and changes nothing else: no run is
\* started (so no upload request and no step), the section, progress and
\* APP_STATE stay as they were.
C10_NonPdfRejected ==
    [][\A file \in Files :
         (handleFileUpload(file) /\ ~endsWith(toLowerCase(file.name), DotPdf))
         => /\ lastToast' = Toast("error", PleaseUploadPdf)
            /\ UNCHANGED <<appVars, pipeVars>>]_vars

\* a non-pdf file was turned away when a document was already bound
C10_Witness ==
    /\ lastToast = Toast("error", PleaseUploadPdf)
    /\ section = UploadSection
    /\ currentDocId # NullId
    /\ Len(runs) >= 1

\* C11: handleFileUpload of a file named *.pdf starts a run, whose upload
\* request is outstanding after the call, when the size is at most
\* 10*1024*1024 bytes (0 and the ceiling itself included), and shows the size
\* error and starts nothing when the size is larger.
C11_StrictSizeCeiling ==
    [][\A file \in Files :
         (handleFileUpload(file) /\ endsWith(toLowerCase(file.name), DotPdf))
         => IF file.size <= 10 * 1024 * 1024
            THEN /\ Len(runs') = Len(runs) + 1
                 /\ runs'[Len(runs')].pc = "upload"
                 /\ runs'[Len(runs')].requests = <<"upload">>
                 /\ section' = ProcessingSection
            ELSE /\ lastToast' = Toast("error", FileTooLarge)
                 /\ UNCHANGED <<appVars, pipeVars>>]_vars

\* a pdf one byte over the ceiling was turned away after an earlier file had
\* been taken
C11_Witness ==
    /\ lastToast = Toast("error", FileTooLarge)
    /\ section = UploadSection
    /\ Len(runs) >= 1

\* C12: a run that waits for the answer of the extraction request does not
\* wait for ever: the wait ends (in failure, when the ceiling elapses without
\* an answer).
C12_ExtractionBounded ==
    \A r \in 1..MaxRuns :
        (r <= Len(runs) /\ runs[r].pc = "extract")
        ~> (r <= Len(runs) /\ runs[r].pc # "extract")

\* C13 as stated: the extraction request goes out with the success of the
\* upload, so no run has a document id and no extraction request.
C13_ExtractWithoutWaiting ==
    \A r \in 1..Len(runs) :
        runs[r].doc # NullId => Len(runs[r].requests) = 2

\* C13, amended: the extraction request of a run is issued by the step that
\* ends its second pacing delay, after steps 2 and 3 were displayed; the steps
\* that end the upload and the first delay issue no request.
C13_ExtractAfterDelays ==
    [][\A r \in 1..Len(runs) :
         /\ runs[r].pc \in {"upload", "delay1"}
               => runs'[r].requests = <<"upload">>
         /\ runs'[r].requests # runs[r].requests
               => /\ delay2Done(r)
                  /\ runs'[r].requests = <<"upload", "extract">>
                  /\ runs'[r].steps = <<0, 1, 2, 3>>]_vars

\* an uploaded document whose run still sits in the second delay
C13_Witness ==
    \E r \in 1..Len(runs) :
        /\ runs[r].pc = "delay2"
        /\ runs[r].doc # NullId
        /\ runs[r].requests = <<"upload">>

\* C14: the step in which a run fails, at the upload or at the extraction,
\* leaves currentDocId with the value it had when that run started.
C14_FailedRunKeepsDocument ==
    [][\A r \in 1..Len(runs) :
         (runs[r].pc # "failed" /\ runs'[r].pc = "failed")
         => currentDocId' = runs[r].docBefore]_vars

\* C15: the step that begins a new analysis, resetApplication or the
\* handleFileUpload call that starts a run, leaves no turn in the transcript.
C15_NewAnalysisClearsTranscript ==
    [][(\/ resetApplication
        \/ \E file \in Files :
               handleFileUpload(file) /\ Len(runs') = Len(runs) + 1)
       => Turns(transcript') = <<>>]_vars

IsPrefix(s, t) == Len(s) <= Len(t) /\ SubSeq(t, 1, Len(s)) = s

\* C16: every step other than the success of a clear keeps the turns of the
\* transcript, unchanged and in order, as a prefix of the turns after it.
C16_AppendOnly ==
    [][\/ \E c \in clearPending : clearSettles(c, TRUE)
       \/ IsPrefix(Turns(transcript), Turns(transcript'))]_vars

\* the same question asked twice stands twice in the transcript
C16_Witness ==
    \E i, j \in 1..Len(Turns(transcript)) :
        /\ i < j
        /\ Turns(transcript)[i].kind = "user"
        /\ Turns(transcript)[i] = Turns(transcript)[j]

\* C17: while a run is under way (started, neither complete nor failed) no
\* step lowers the displayed progress percentage, which is step/5*100 of the
\* last step reported.
C17_ProgressNeverDecreases ==
    [][ActiveRuns # {}
       => percentage(progressStep') >= percentage(progressStep)]_vars

\* C18: from the failure of a run, while the timer of its catch block is
\* pending, the upload section is eventually shown; and a valid file handed
\* over after a failure starts a run.
C18_FailureNotFatal ==
    /\ (\E r \in 1..Len(runs) : runs[r].pc = "failed" /\ r \in timers)
           ~> (section = UploadSection)
    /\ [][\A file \in Files :
            (/\ handleFileUpload(file)
             /\ IsPdfFile(file) /\ ~IsTooLarge(file)
             /\ \E r \in 1..Len(runs) : runs[r].pc = "failed")
            => /\ Len(runs') = Len(runs) + 1
               /\ runs'[Len(runs')].pc = "upload"]_vars

\* a run failed, its timer fired, and a later run completed
C18_Witness ==
    \E r, q \in 1..Len(runs) :
        /\ r < q
        /\ runs[r].pc = "failed" /\ r \notin timers
        /\ runs[q].pc = "done"
        /\ section = DashboardSection

\* C19: a step that changes currentSessionId is a resetApplication step; the
\* steps of a run, successful or failed, and the navigation leave it alone.
C19_SessionOnlyByReset ==
    [][currentSessionId' # currentSessionId => resetApplication]_vars

\* after one reset the session is the second one made, with a failed and a
\* completed run behind it
C19_Witness ==
    /\ currentSessionId = 2
    /\ sessionsMade = 2
    /\ \E r, q \in 1..Len(runs) :
           runs[r].pc = "failed" /\ runs[q].pc = "done"

\* C20: whatever integer score getRiskLevel is called with, it returns one of
\* HIGH, MEDIUM and LOW: HIGH exactly for scores of 60 and more, MEDIUM exactly
\* for 30 to 59, LOW exactly for 29 and less (below 0 and above 100 included).
C20_RiskBands ==
    callResult # NullText
    => /\ callResult \in {"HIGH", "MEDIUM", "LOW"}
       /\ callResult = "HIGH" <=> callArg >= 60
       /\ callResult = "MEDIUM" <=> (30 <= callArg /\ callArg <= 59)
       /\ callResult = "LOW" <=> callArg <= 29

\* the call with the lowest HIGH score has returned
C20_Witness == callArg = 60 /\ callResult = "HIGH"

\* C24: the step that settles a send, with an answer or with a failure,
\* leaves the assistant turn last in the transcript and the user turn of that
\* send right before it, whatever was sent or cleared in between.
C24_AnswerFollowsQuestion ==
    [][\A p \in chatPending :
         p \notin chatPending'
         => LET t == Turns(transcript') IN
            /\ Len(t) >= 2
            /\ t[Len(t)].kind = "ai"
            /\ t[Len(t) - 1] = UserTurn(p.query)]_vars

\* C25: whenever the dashboard section is shown, currentDocId is the document
\* id of the result rendered on it.
C25_DashboardShowsCurrentDocument ==
    section = DashboardSection => currentDocId = dashboardData.doc_id

\* C26: when the timer of a failed run fires while a later run has the
\* processing section (still under way) or the dashboard section (complete)
\* on screen, the section stays.
C26_TimerSparesLaterRun ==
    [][\A r \in timers :
         (/\ timerFires(r)
          /\ \E q \in 1..Len(runs) :
                 /\ q > r
                 /\ \/ runs[q].pc \in ActivePcs /\ section = ProcessingSection
                    \/ runs[q].pc = "done" /\ section = DashboardSection)
         => section' = section]_vars

\* C27: the step that settles a send whose request went out under a session
\* id or a document id other than the current ones appends no turn.
C27_StaleAnswerDropped ==
    [][\A p \in chatPending :
         (/\ p \notin chatPending'
          /\ \/ chatRequests[p.id].session_id # currentSessionId
             \/ chatRequests[p.id].doc_id # currentDocId)
         => Turns(transcript') = Turns(transcript)]_vars

\* C28: in every state Chat.isProcessing is true exactly when one chat request
\* is outstanding, the send button is disabled exactly when isProcessing is
\* true, and no more than one chat request is outstanding.
C28_FlagTracksRequest ==
    /\ isProcessing <=> Cardinality(chatPending) = 1
    /\ sendBtnDisabled <=> isProcessing
    /\ Cardinality(chatPending) <= 1

\* a first request has been settled and the flag is down again, then a second
\* one went out
C28_Witness ==
    /\ Len(chatRequests) = 2
    /\ Cardinality(chatPending) = 1
    /\ isProcessing /\ sendBtnDisabled

\* C29: while a run is under way extractionData does not hold the result of
\* an earlier run that completed.
C29_OldResultDiscarded ==
    \A r \in ActiveRuns :
        \A q \in 1..Len(runs) :
            (q < r /\ runs[q].pc = "done") => extractionData # runs[q].result

\* the clauses the items of #clausesList were made from
ShownClauses == IF callResult = NullText THEN dashboardData.clauses ELSE callArg

RankOf(riskLevel) ==
    CHOOSE k \in 1..4 : <<"high", "medium", "low", "not_found">>[k] = riskLevel

\* C21: renderClausesList of a list with levels HIGH, MEDIUM, LOW, NOT_FOUND
\* makes one item per clause, each clause once, HIGH items before MEDIUM
\* before LOW before NOT_FOUND, items of one level in their upstream order,
\* and leaves the list it was given as it was.
C21_StableSortByLevel ==
    [][renderClausesListCall
       => LET out == clauseItems' IN
          /\ Len(out) = Len(callArg)
          /\ \A c \in 1..Len(callArg) :
                 \E i \in 1..Len(out) :
                     /\ out[i].clause_type = callArg[c].clause_type
                     /\ out[i].riskLevel
                            = <<"high", "medium", "low", "not_found">>
                                  [CHOOSE k \in 1..4 :
                                      <<"HIGH", "MEDIUM", "LOW", "NOT_FOUND">>[k]
                                          = callArg[c].risk_level]
          /\ \A i, j \in 1..Len(out) :
                 i < j
                 => /\ RankOf(out[i].riskLevel) <= RankOf(out[j].riskLevel)
                    /\ out[i].riskLevel = out[j].riskLevel
                          => out[i].clause_type < out[j].clause_type
          /\ callArg' = callArg]_vars

\* LOW, HIGH, LOW came out as HIGH, LOW, LOW with the two LOW in their order
C21_Witness ==
    /\ callResult = "returned"
    /\ Len(callArg) = 3
    /\ callArg[1].risk_level = "LOW" /\ callArg[2].risk_level = "HIGH"
    /\ callArg[3].risk_level = "LOW"
    /\ clauseItems[1].clause_type = 2
    /\ clauseItems[2].clause_type = 1
    /\ clauseItems[3].clause_type = 3

VisibleTypes(items) ==
    {items[i].clause_type : i \in {k \in 1..Len(items) : ~items[k].hidden}}

TypesWhere(clauses, Test(_)) ==
    {clauses[i].clause_type : i \in {k \in 1..Len(clauses) : Test(clauses[k])}}

\* C22: a click on a filter button leaves visible every item for `all`,
\* exactly the items of HIGH, MEDIUM or LOW clauses for high, medium or low,
\* and exactly the items of clauses with found = false for `missing`.
C22_FilterSelects ==
    [][\A filter \in Filters :
         filterClick(filter)
         => VisibleTypes(clauseItems')
                = CASE filter = "all" ->
                           TypesWhere(ShownClauses, LAMBDA c : TRUE)
                    [] filter = "high" ->
                           TypesWhere(ShownClauses,
                                      LAMBDA c : c.risk_level = "HIGH")
                    [] filter = "medium" ->
                           TypesWhere(ShownClauses,
                                      LAMBDA c : c.risk_level = "MEDIUM")
                    [] filter = "low" ->
                           TypesWhere(ShownClauses,
                                      LAMBDA c : c.risk_level = "LOW")
                    [] filter = "missing" ->
                           TypesWhere(ShownClauses, LAMBDA c : ~c.found)]_vars

\* `missing` was clicked on a rendered list that has found and missing clauses
C22_Witness ==
    /\ callResult = "returned"
    /\ currentFilter = "missing"
    /\ \E i, j \in 1..Len(clauseItems) :
           clauseItems[i].hidden /\ ~clauseItems[j].hidden

\* C23: after renderRiskOverview the tier and the four counts shown are the
\* upstream values and the filled part of the gauge is
\* overall_risk_score/100 of its length, whatever the clause list holds.
C23_OverviewTrustsUpstream ==
    callResult = "returned"
    => /\ overview.level = callArg.risk_level
       /\ overview.high = callArg.high_risk_count
       /\ overview.medium = callArg.medium_risk_count
       /\ overview.low = callArg.low_risk_count
       /\ overview.missingCritical = callArg.missing_critical_count
       /\ (251200 - overview.strokeDashoffset) * 100
              = 251200 * callArg.overall_risk_score

\* score 72 with tier HIGH and two HIGH clauses counted upstream was rendered
\* for a result that lists no clause
C23_Witness ==
    /\ callResult = "returned"
    /\ callArg.overall_risk_score = 72 /\ callArg.risk_level = "HIGH"
    /\ callArg.high_risk_count = 2 /\ callArg.clauses = <<>>
    /\ overview.level = "HIGH" /\ overview.high = 2
    /\ overview.strokeDashoffset = 251200 - 2512 * 72

\* the items a filter value selects, by the level each item was made with
SelectedTypes(items, filter) ==
    {items[i].clause_type :
        i \in {k \in 1..Len(items) :
                 \/ filter = "all"
                 \/ filter = "missing" /\ items[k].riskLevel = "not_found"
                 \/ filter = items[k].riskLevel}}

\* C30: whenever the dashboard section is shown, the visible clause items
\* are exactly the items currentFilter selects.
C30_VisibleMatchesFilter ==
    section = DashboardSection
    => VisibleTypes(clauseItems) = SelectedTypes(clauseItems, currentFilter)

\* C31: a filter click leaves the clause items as many as they were, each at
\* its place with its clause and its level, and leaves the overview (score,
\* tier, counts), the shown file name, extractionData, currentDocId and
\* currentSessionId as they were; currentFilter becomes the filter clicked.
C31_FilterFrame ==
    [][\A filter \in Filters :
          filterClick(filter)
          => /\ currentFilter' = filter
             /\ Len(clauseItems') = Len(clauseItems)
             /\ \A i \in 1..Len(clauseItems) :
                    /\ clauseItems'[i].clause_type = clauseItems[i].clause_type
                    /\ clauseItems'[i].riskLevel = clauseItems[i].riskLevel
             /\ overview' = overview
             /\ dashboardFileName' = dashboardFileName
             /\ extractionData' = extractionData
             /\ currentDocId' = currentDocId
             /\ currentSessionId' = currentSessionId]_vars

\* `medium` was clicked on three items of which the second alone is medium
C31_Witness ==
    /\ section = DashboardSection
    /\ currentFilter = "medium"
    /\ Len(clauseItems) = 3
    /\ clauseItems[1].hidden /\ ~clauseItems[2].hidden /\ clauseItems[3].hidden
    /\ overview.high + overview.medium + overview.low > 0

\* C32: the text shown for a found clause whose extracted text is longer than
\* the budget of 200 characters is the first 200 characters of that text
\* followed by the marker '...'; a text of 1 to 200 characters is shown as it
\* is; and the call leaves the clause it was given, extracted text included,
\* as it was.
C32_DisplayTruncation ==
    [][renderClausesListCall
       => /\ \A c \in 1..Len(callArg) :
                 \E i \in 1..Len(clauseItems') :
                     LET text == callArg[c].extracted_text
                         shown == clauseItems'[i].text IN
                     /\ clauseItems'[i].clause_type = callArg[c].clause_type
                     /\ (callArg[c].found /\ Len(text) > ClauseTextBudget)
                            => /\ Len(shown) = ClauseTextBudget + 3
                               /\ \A k \in 1..ClauseTextBudget :
                                      shown[k] = text[k]
                               /\ \A k \in 1..3 :
                                      shown[ClauseTextBudget + k] = "."
                     /\ (callArg[c].found /\ Len(text) \in 1..ClauseTextBudget)
                            => shown = text
          /\ callArg' = callArg]_vars

\* a found clause with a text of 201 characters was rendered
C32_Witness ==
    /\ callResult = "returned"
    /\ Len(callArg) = 1
    /\ callArg[1].found
    /\ Len(callArg[1].extracted_text) = ClauseTextBudget + 1
    /\ Len(clauseItems) = 1
    /\ Len(clauseItems[1].text) = ClauseTextBudget + 3

====
